---------------------------- MODULE Spec2Model ----------------------------
(***************************************************************************)
(* A model of the paper pipeline of academic-language-analysis:            *)
(*   data_cleaning/lib/util.py     normalize_doi, impact_score,            *)
(*                                 classify_impact, build_paper_document   *)
(*   data_cleaning/get_papers.py   process_and_enrich, upsert_to_db, main  *)
(*   data_cleaning/download_pdfs.py, analyze_jargon.py   later stages that *)
(*                                 write to the same 'papers' collection   *)
(*                                                                         *)
(* Python values are modelled as tagged records (None, str, int, bool,     *)
(* list, dict), so that truthiness, `a or b`, dict.get and isinstance are  *)
(* computed as Python computes them.  A Python str is a sequence of        *)
(* one-character strings.                                                  *)
(***************************************************************************)
EXTENDS Integers, Sequences, FiniteSets, TLC

(***************************************************************************)
(* Python values                                                           *)
(***************************************************************************)
None == [t |-> "None"]

Str(s) == [t |-> "str", s |-> s]

Int_(n) == [t |-> "int", n |-> n]

Bool(b) == [t |-> "bool", b |-> b]

List(l) == [t |-> "list", l |-> l]

\* a dict whose iteration order does not matter: d is a function on its keys
Dict(d) == [t |-> "dict", d |-> d]

\* a dict that the code iterates: its items in insertion order
ODict(items) == [t |-> "odict", items |-> items]

EmptyDict == Dict(<<>>)

EmptyStr == Str(<<>>)

\* bool(v), `if v`, `not v`
Truthy(v) ==
    CASE v.t = "None"  -> FALSE
      [] v.t = "str"   -> v.s # <<>>
      [] v.t = "int"   -> v.n # 0
      [] v.t = "bool"  -> v.b
      [] v.t = "list"  -> v.l # <<>>
      [] v.t = "dict"  -> DOMAIN v.d # {}
      [] v.t = "odict" -> v.items # <<>>

\* a or b
Or(a, b) == IF Truthy(a) THEN a ELSE b

\* d.get(key, default) on a dict
GetD(d, key, default) == IF key \in DOMAIN d.d THEN d.d[key] ELSE default

\* d.get(key)
Get(d, key) == GetD(d, key, None)

(***************************************************************************)
(* Python str operations used by the code                                  *)
(***************************************************************************)
UpperCase == <<"A","B","C","D","E","F","G","H","I","J","K","L","M",
               "N","O","P","Q","R","S","T","U","V","W","X","Y","Z">>

LowerCase == <<"a","b","c","d","e","f","g","h","i","j","k","l","m",
               "n","o","p","q","r","s","t","u","v","w","x","y","z">>

Whitespace == {" ", "\t", "\n"}

Digits == <<"0","1","2","3","4","5","6","7","8","9">>

LowerChar(c) ==
    IF \E i \in DOMAIN UpperCase : UpperCase[i] = c
    THEN LowerCase[CHOOSE i \in DOMAIN UpperCase : UpperCase[i] = c]
    ELSE c

\* s.lower()
Lower(s) == [i \in DOMAIN s |-> LowerChar(s[i])]

\* s.lstrip(), s.rstrip(), s.strip()
RECURSIVE LStrip(_)
LStrip(s) ==
    IF s # <<>> /\ Head(s) \in Whitespace THEN LStrip(Tail(s)) ELSE s

RECURSIVE RStrip(_)
RStrip(s) ==
    IF s # <<>> /\ s[Len(s)] \in Whitespace
    THEN RStrip(SubSeq(s, 1, Len(s) - 1))
    ELSE s

Strip(s) == RStrip(LStrip(s))

\* s.startswith(p)
StartsWith(s, p) == Len(s) >= Len(p) /\ SubSeq(s, 1, Len(p)) = p

\* s.replace(old, ""): the non-overlapping occurrences of old, found left to
\* right, are removed in one pass (old is never empty here)
RECURSIVE Remove(_, _)
Remove(s, old) ==
    IF s = <<>> THEN <<>>
    ELSE IF StartsWith(s, old)
         THEN Remove(SubSeq(s, Len(old) + 1, Len(s)), old)
         ELSE <<Head(s)>> \o Remove(Tail(s), old)

\* s[:n]
Prefix(s, n) == SubSeq(s, 1, IF Len(s) < n THEN Len(s) ELSE n)

(***************************************************************************)
(* int(v) and float(v).  The outcome is [ok, n]: ok = FALSE is the         *)
(* TypeError / ValueError Python raises.  Numeric text is an optional sign *)
(* and decimal digits, with surrounding whitespace; the model's payloads   *)
(* hold no float and no text such as "1.5", "nan" or "1e3", on which int   *)
(* and float differ.                                                       *)
(***************************************************************************)
DigitVal(c) == (CHOOSE i \in DOMAIN Digits : Digits[i] = c) - 1

IsDigit(c) == \E i \in DOMAIN Digits : Digits[i] = c

RECURSIVE DigitsVal(_)
DigitsVal(s) ==
    IF s = <<>> THEN 0
    ELSE 10 * DigitsVal(SubSeq(s, 1, Len(s) - 1)) + DigitVal(s[Len(s)])

AllDigits(s) == s # <<>> /\ \A i \in DOMAIN s : IsDigit(s[i])

ParseInt(s) ==
    LET b == Strip(s)
        signed == b # <<>> /\ Head(b) \in {"-", "+"}
        body == IF signed THEN Tail(b) ELSE b
    IN  IF AllDigits(body)
        THEN [ok |-> TRUE,
              n  |-> IF signed /\ Head(b) = "-" THEN 0 - DigitsVal(body)
                     ELSE DigitsVal(body)]
        ELSE [ok |-> FALSE, n |-> 0]

Raises == [ok |-> FALSE, n |-> 0]

\* int(v)
IntOf(v) ==
    CASE v.t = "int"  -> [ok |-> TRUE, n |-> v.n]
      [] v.t = "bool" -> [ok |-> TRUE, n |-> IF v.b THEN 1 ELSE 0]
      [] v.t = "str"  -> ParseInt(v.s)
      [] OTHER        -> Raises

\* float(v): on the model's values it succeeds and fails where int(v) does
FloatOf(v) == IntOf(v)

(***************************************************************************)
(* A float that is the quotient of two integers, kept as the reduced       *)
(* fraction num/den with den >= 1.  For the magnitudes of the model the    *)
(* rounded quotient compares with 1 and 5 as the exact one does.           *)
(***************************************************************************)
Abs(n) == IF n < 0 THEN 0 - n ELSE n

RECURSIVE GCD(_, _)
GCD(a, b) == IF b = 0 THEN a ELSE GCD(b, a % b)

Quot(n, d) ==
    LET g == GCD(Abs(n), d)
    IN  [num |-> (IF n < 0 THEN 0 - (Abs(n) \div g) ELSE n \div g),
         den |-> d \div g]

(***************************************************************************)
(* State                                                                   *)
(***************************************************************************)
VARIABLES
    papers_coll,   \* db['papers']: _id -> document
    current_year,  \* datetime.now().year
    pc,            \* the script that runs, and where it is
    batch,         \* get_papers: the payloads fetched, one
                   \*   [work, crossref, unpaywall] per result
    papers,        \* get_papers: the documents process_and_enrich built
    k,             \* upsert_to_db: the index of the next document
    inserted,      \* upsert_to_db: counter
    updated,       \* upsert_to_db: counter
    result,        \* upsert_to_db: the UpdateResult of the last replace_one
    replaced,      \* history: the document that replace_one overwrote
    db_errors,     \* upsert_to_db: indices whose "DB error" line was printed
    summary,       \* print_summary: the counts printed
    dl_papers,     \* download_pdfs main: the papers still to download
    jg_papers,     \* analyze_jargon main: the papers still to score
    last_batch,    \* history: the payloads of the latest get_papers run
    first_papers,  \* history: the documents built when those payloads
                   \*   were first processed
    coll_before,   \* history: db['papers'] when upsert_to_db was called
    features_coll, \* db['extracted_features']: its documents, in the
                   \*   order they were inserted
    ex_papers,     \* extract process_papers: the papers still to process
    ex_reprocess,  \* extract process_papers: its argument reprocess
    probe          \* the call under test of a pure function, and its result

vars == <<papers_coll, current_year, pc, batch, papers, k, inserted, updated,
          result, replaced, db_errors, summary, dl_papers, jg_papers, last_batch,
          first_papers, coll_before, probe, features_coll, ex_papers,
          ex_reprocess>>

(***************************************************************************)
(* lib/util.py                                                             *)
(***************************************************************************)
\* int(publication_year) under try/except: None when it raises
impact_year(publication_year) ==
    LET r == IntOf(publication_year)
    IN  IF r.ok THEN Int_(r.n) ELSE None

Max(a, b) == IF a >= b THEN a ELSE b

\* the age impact_score divides by; now is what datetime.now().year returns
\* during the call
impact_age(now, publication_year) ==
    LET year == impact_year(publication_year)
    IN  IF Truthy(year) /\ year.n <= now
        THEN Max(1, now - year.n + 1)
        ELSE 1

\* float(citations) under try/except: 0.0 when it raises
impact_citations(citations) ==
    LET r == FloatOf(citations)
    IN  IF r.ok THEN r.n ELSE 0

impact_score(now, citations, publication_year) ==
    Quot(impact_citations(citations), impact_age(now, publication_year))

\* a variant with the thresholds included in the upper tier (>= for >)
classify_impact_inclusive(score) ==
    IF score.num >= 5 * score.den THEN "HIGH"
    ELSE IF score.num >= score.den THEN "MODERATE"
    ELSE "LOW"

classify_impact(score) ==
    IF score.num > 5 * score.den THEN "HIGH"
    ELSE IF score.num > score.den THEN "MODERATE"
    ELSE "LOW"

\* a variant that tests `pdf_url is not None` instead of its truth value
determine_processing_status_not_none(pdf_url) ==
    IF pdf_url.t # "None" THEN "pending_download" ELSE "no_pdf_available"

\* a variant with the two outcomes exchanged
determine_processing_status_negated(pdf_url) ==
    IF Truthy(pdf_url) THEN "no_pdf_available" ELSE "pending_download"

determine_processing_status(pdf_url) ==
    IF Truthy(pdf_url) THEN "pending_download" ELSE "no_pdf_available"

HTTPS_PREFIX ==
    <<"h","t","t","p","s",":","/","/","d","o","i",".","o","r","g","/">>

HTTP_PREFIX ==
    <<"h","t","t","p",":","/","/","d","o","i",".","o","r","g","/">>

normalize_doi(doi) ==
    IF ~Truthy(doi) THEN None
    ELSE Str(Remove(Remove(Strip(Lower(doi.s)), HTTPS_PREFIX), HTTP_PREFIX))

RECURSIVE _safe_get_from(_, _, _)
_safe_get_from(data, keys, default) ==
    IF keys = <<>> THEN (IF data.t # "None" THEN data ELSE default)
    ELSE IF data.t = "dict"
         THEN _safe_get_from(Get(data, Head(keys)), Tail(keys), default)
         ELSE default

\* _safe_get(data, *keys) with default=None
_safe_get(data, keys) == _safe_get_from(data, keys, None)

\* one entry of work['authorships'] as {"name", "affiliation"}
openalex_author(authorship) ==
    LET author_info  == Or(Get(authorship, "author"), EmptyDict)
        name         == Or(Get(author_info, "display_name"), EmptyStr)
        institutions == Or(Get(authorship, "institutions"), List(<<>>))
        affiliation  == IF Truthy(institutions)
                        THEN Get(institutions.l[1], "display_name")
                        ELSE EmptyStr
    IN  [name |-> name, affiliation |-> Or(affiliation, EmptyStr)]

\* one entry of crossref['author'] as {"name", "affiliation"}
crossref_author(a) ==
    LET given       == GetD(a, "given", EmptyStr)
        family      == GetD(a, "family", EmptyStr)
        name        == Str(Strip(given.s \o <<" ">> \o family.s))
        affs        == Or(Get(a, "affiliation"), List(<<>>))
        affiliation == IF Truthy(affs) THEN Get(affs.l[1], "name")
                       ELSE EmptyStr
    IN  [name |-> name, affiliation |-> Or(affiliation, EmptyStr)]

HasName(author) == Truthy(author.name)

_extract_authors(work, crossref) ==
    LET authorships == Or(Get(work, "authorships"), List(<<>>)).l
        authors     == SelectSeq([i \in DOMAIN authorships |->
                                      openalex_author(authorships[i])],
                                 HasName)
        cr_authors  == Or(Get(crossref, "author"), List(<<>>)).l
    IN  IF authors = <<>> /\ Truthy(crossref)
        THEN SelectSeq([i \in DOMAIN cr_authors |->
                            crossref_author(cr_authors[i])], HasName)
        ELSE authors

\* the (pos, word) pairs of an inverted index, in the order the two loops
\* append them
RECURSIVE PairsOf(_)
PairsOf(items) ==
    IF items = <<>> THEN <<>>
    ELSE LET word      == Head(items).k
             positions == Head(items).v.l
         IN  [i \in DOMAIN positions |-> [pos |-> positions[i].n, word |-> word]]
             \o PairsOf(Tail(items))

\* list.sort(key=pos): stable, so equal positions keep their order
RECURSIVE InsertByPos(_, _)
InsertByPos(sorted, p) ==
    IF sorted = <<>> THEN <<p>>
    ELSE IF sorted[Len(sorted)].pos <= p.pos THEN Append(sorted, p)
    ELSE Append(InsertByPos(SubSeq(sorted, 1, Len(sorted) - 1), p),
                sorted[Len(sorted)])

\* a variant without words.sort(): the pairs stay in the order of the mapping
SortByPos_unsorted(pairs) == pairs

RECURSIVE SortByPos(_)
SortByPos(pairs) ==
    IF pairs = <<>> THEN <<>>
    ELSE InsertByPos(SortByPos(SubSeq(pairs, 1, Len(pairs) - 1)),
                     pairs[Len(pairs)])

\* ' '.join(words)
RECURSIVE Join(_)
Join(words) ==
    IF words = <<>> THEN <<>>
    ELSE IF Len(words) = 1 THEN words[1].s
    ELSE words[1].s \o <<" ">> \o Join(Tail(words))

_reconstruct_abstract(inverted_index) ==
    IF ~Truthy(inverted_index) THEN EmptyStr
    ELSE LET words == SortByPos(PairsOf(inverted_index.items))
         IN  Str(Join([i \in DOMAIN words |-> words[i].word]))

\* the exception that leaves build_paper_document when an int() raises
BuildError == [exception |-> "raised"]

\* the length of the title excerpt of a fallback id
TitleExcerpt == 80

AutoPrefix == <<"a","u","t","o",":">>

NoTitle == <<"<","n","o"," ","t","i","t","l","e",">">>

\* build_paper_document, pdf_url: a variant that asks the open-access payload
\* before the primary one
build_pdf_url_unpaywall_first(work, unpaywall) ==
    Or(_safe_get(unpaywall, <<"best_oa_location", "url_for_pdf">>),
    Or(Get(unpaywall, "url"),
    Or(_safe_get(work, <<"best_oa_location", "url_for_pdf">>),
       _safe_get(work, <<"primary_location", "pdf_url">>))))

\* build_paper_document, pdf_url
build_pdf_url(work, unpaywall) ==
    Or(_safe_get(work, <<"best_oa_location", "url_for_pdf">>),
    Or(_safe_get(work, <<"primary_location", "pdf_url">>),
    Or(_safe_get(unpaywall, <<"best_oa_location", "url_for_pdf">>),
       Get(unpaywall, "url"))))

\* build_paper_document, abstract: a variant that asks Crossref before it
\* reconstructs the inverted index
build_abstract_crossref_first(work, crossref) ==
    Or(Get(work, "abstract"),
    Or(Get(crossref, "abstract"),
    Or(_reconstruct_abstract(Get(work, "abstract_inverted_index")),
       EmptyStr)))

\* build_paper_document, abstract
build_abstract(work, crossref) ==
    Or(Get(work, "abstract"),
    Or(_reconstruct_abstract(Get(work, "abstract_inverted_index")),
    Or(Get(crossref, "abstract"),
       EmptyStr)))

\* build_paper_document, influential: int() of the count of the last entry
\* of counts_by_year, as [ok, n]
build_influential(work) ==
    LET counts_by_year == Or(Get(work, "counts_by_year"), List(<<>>))
        has_counts     == counts_by_year.t = "list" /\ counts_by_year.l # <<>>
    IN  IF has_counts
        THEN IntOf(GetD(counts_by_year.l[Len(counts_by_year.l)],
                        "cited_by_count", Int_(0)))
        ELSE [ok |-> TRUE, n |-> 0]

\* build_paper_document, work_id: a variant that prefers the DOI to the
\* catalog's id
build_work_id_doi_first(openalex_id, doi, title) ==
    Or(doi, Or(openalex_id, Str(AutoPrefix \o Prefix(title.s, TitleExcerpt))))

\* build_paper_document, work_id
build_work_id(openalex_id, doi, title) ==
    Or(openalex_id, Or(doi, Str(AutoPrefix \o Prefix(title.s, TitleExcerpt))))

build_paper_document(now, work, crossref_in, unpaywall_in) ==
    LET title       == Or(Get(work, "title"), Str(NoTitle))
        citations   == Or(GetD(work, "cited_by_count", Int_(0)), Int_(0))
        year        == Get(work, "publication_year")
        doi         == normalize_doi(Get(work, "doi"))
        openalex_id == Get(work, "id")
        crossref    == Or(crossref_in, EmptyDict)
        unpaywall   == Or(unpaywall_in, EmptyDict)
        authors     == _extract_authors(work, crossref)
        journal_name ==
            Or(_safe_get(work, <<"host_venue", "display_name">>),
            Or(_safe_get(work, <<"primary_location", "source", "display_name">>),
               Or(Get(crossref, "container-title"), List(<<None>>)).l[1]))
        issn ==
            Or(_safe_get(work, <<"host_venue", "issn_l">>),
            Or(_safe_get(work, <<"primary_location", "source", "issn_l">>),
               Or(Get(crossref, "ISSN"), List(<<None>>)).l[1]))
        is_oa == Truthy(GetD(work, "is_oa", Bool(FALSE)))
                 \/ Truthy(GetD(unpaywall, "is_oa", Bool(FALSE)))
        pdf_url == build_pdf_url(work, unpaywall)
        oa_status ==
            Or(_safe_get(work, <<"best_oa_location", "license">>),
            Or(_safe_get(unpaywall, <<"best_oa_location", "license">>),
               EmptyStr))
        abstract == build_abstract(work, crossref)
        score          == impact_score(now, citations, year)
        classification == classify_impact(score)
        influential == build_influential(work)
        processing_status == determine_processing_status(pdf_url)
        concepts == Or(Get(work, "concepts"), List(<<>>)).l
        names    == [i \in DOMAIN concepts |-> Get(concepts[i], "display_name")]
        tags     == SelectSeq(names, Truthy)
        work_id  == build_work_id(openalex_id, doi, title)
        year_int      == IF Truthy(year) THEN IntOf(year) ELSE Raises
        citations_int == IntOf(citations)
    IN  IF \/ ~influential.ok
           \/ Truthy(year) /\ ~year_int.ok
           \/ ~citations_int.ok
        THEN BuildError
        ELSE [ _id     |-> work_id,
               title   |-> title,
               year    |-> IF Truthy(year) THEN Int_(year_int.n) ELSE None,
               authors |-> authors,
               journal |-> [name |-> Or(journal_name, EmptyStr),
                            issn |-> Or(issn, EmptyStr)],
               impact  |-> [citation_count        |-> citations_int.n,
                            citations_per_year    |-> score,
                            classification        |-> classification,
                            influential_citations |-> influential.n],
               open_access |-> [is_oa   |-> is_oa,
                                pdf_url |-> Or(pdf_url, EmptyStr),
                                status  |-> oa_status],
               content |-> [abstract            |-> abstract,
                            full_text_extracted |-> FALSE,
                            local_path          |-> None],
               processing_status |-> processing_status,
               tags |-> tags ]

(***************************************************************************)
(* Bounds of the model                                                     *)
(***************************************************************************)
\* the year the clock starts at
StartYear == 2025

\* the number of new years the clock may pass
MaxTicks == 1

\* the largest number of results the catalog returns for one run
MaxBatch == 2

(***************************************************************************)
(* The payloads the collaborators return.  WorkA carries no DOI, so it is  *)
(* never enriched; its score is 15/2 in its second year and exactly 5 in   *)
(* its third.  WorkB has a DOI, no year and one citation (score exactly    *)
(* 1), no PDF url of its own and an abstract held as an inverted index.    *)
(* WorkBad has a publication year that is no number.                       *)
(***************************************************************************)
WorkA ==
    Dict([id    |-> Str(<<"W","1">>),
          title |-> Str(<<"S","o","i","l">>),
          cited_by_count   |-> Int_(15),
          publication_year |-> Int_(StartYear - 1),
          is_oa |-> Bool(TRUE),
          best_oa_location |-> Dict([url_for_pdf |-> Str(<<"u","1">>),
                                     license     |-> Str(<<"c","c">>)]),
          abstract |-> Str(<<"W","e"," ","d","i","g">>),
          counts_by_year |-> List(<<Dict([year |-> Int_(StartYear),
                                          cited_by_count |-> Int_(4)]),
                                    Dict([year |-> Int_(StartYear - 1),
                                          cited_by_count |-> Int_(11)])>>)])

WorkB ==
    Dict([id    |-> Str(<<"W","2">>),
          doi   |-> Str(<<"h","t","t","p","s",":","/","/","d","o","i",".","o","r","g","/","1","0",".","1","/","B">>),
          title |-> Str(<<"P","e","a","t">>),
          cited_by_count |-> Int_(1),
          abstract_inverted_index |->
              ODict(<<[k |-> Str(<<"W","e">>),    v |-> List(<<Int_(0)>>)],
                      [k |-> Str(<<"s","t","u","d","y">>), v |-> List(<<Int_(2)>>)],
                      [k |-> Str(<<"s","o","i","l","s">>), v |-> List(<<Int_(1)>>)]>>)])

WorkBad ==
    Dict([id    |-> Str(<<"W","3">>),
          title |-> Str(<<"B","o","g">>),
          publication_year |-> Str(<<"n","/","a">>)])

Catalog == {WorkA, WorkB, WorkBad}

CrossrefHit ==
    Dict(("container-title" :> List(<<Str(<<"M","i","r","e","s">>)>>))
         @@ [author |-> List(<<Dict([given  |-> Str(<<"A">>),
                                     family |-> Str(<<"M","o","s","s">>)])>>)])

UnpaywallHit ==
    Dict([is_oa |-> Bool(TRUE),
          url   |-> Str(<<"u","2">>),
          best_oa_location |-> None])

\* what fetch_crossref(doi) may return: the message, or {} when anything
\* goes wrong
fetch_crossref(doi) ==
    IF ~Truthy(doi) THEN {EmptyDict} ELSE {EmptyDict, CrossrefHit}

\* what fetch_unpaywall(doi, EMAIL) may return
fetch_unpaywall(doi) ==
    IF ~Truthy(doi) THEN {EmptyDict} ELSE {EmptyDict, UnpaywallHit}

\* the payloads one iteration of process_and_enrich may hold for a work
Enriched(work) ==
    LET doi == normalize_doi(Get(work, "doi"))
    IN  {[work |-> work, crossref |-> c, unpaywall |-> u] :
            c \in (IF Truthy(doi) THEN fetch_crossref(doi) ELSE {EmptyDict}),
            u \in (IF Truthy(doi) THEN fetch_unpaywall(doi) ELSE {EmptyDict})}

Entries == UNION {Enriched(w) : w \in Catalog}

Batches == UNION {[1..n -> Entries] : n \in 1..MaxBatch}

(***************************************************************************)
(* The document store: pymongo's replace_one(filter, doc, upsert=True) and *)
(* update_one(filter, {"$set": ...}) on a collection keyed by _id          *)
(***************************************************************************)
\* a variant that patches the stored document field by field, as
\* update_one({"_id": _id}, {"$set": doc}, upsert=True) would
replace_one_set_fields(coll, _id, doc) ==
    IF _id \in DOMAIN coll
    THEN [coll EXCEPT ![_id] =
             [f \in DOMAIN coll[_id] \cup DOMAIN doc |->
                 IF f \in DOMAIN doc THEN doc[f] ELSE coll[_id][f]]]
    ELSE coll @@ (_id :> doc)

\* a variant that writes only a document that is new, as
\* update_one({"_id": _id}, {"$setOnInsert": doc}, upsert=True) would
replace_one_insert_only(coll, _id, doc) ==
    IF _id \in DOMAIN coll THEN coll ELSE coll @@ (_id :> doc)

\* the collection after replace_one({"_id": _id}, doc, upsert=True)
\* a variant that rewrites the collection: the documents of the other
\* identifiers are dropped
replace_one_rewrite(coll, _id, doc) == (_id :> doc)

replace_one(coll, _id, doc) ==
    IF _id \in DOMAIN coll
    THEN [coll EXCEPT ![_id] = doc]
    ELSE coll @@ (_id :> doc)

\* its UpdateResult: a replacement equal to the stored document matches it
\* and modifies nothing
replace_one_result(coll, _id, doc) ==
    IF _id \in DOMAIN coll
    THEN [upserted_id    |-> None,
          matched_count  |-> 1,
          modified_count |-> IF coll[_id] = doc THEN 0 ELSE 1]
    ELSE [upserted_id    |-> _id,
          matched_count  |-> 0,
          modified_count |-> 0]

\* the collection after update_one({"_id": _id}, {"$set": {...}}), where
\* set_doc is the matched document with the fields set
update_one(coll, _id, set_doc) ==
    IF _id \in DOMAIN coll
    THEN [coll EXCEPT ![_id] = set_doc]
    ELSE coll

(***************************************************************************)
(* get_papers.py                                                           *)
(***************************************************************************)
NoResult == [upserted_id |-> None, matched_count |-> 0, modified_count |-> 0]

NoSummary == <<>>

NoProbe == [fn |-> "none"]

Years == StartYear .. (StartYear + MaxTicks)

\* build_paper_document on each of the model's payloads in each year,
\* computed once
Built ==
    [now \in Years |-> [e \in Entries |->
        build_paper_document(now, e.work, e.crossref, e.unpaywall)]]

\* the documents process_and_enrich builds from the payloads of a batch
process_and_enrich(b) == [i \in DOMAIN b |-> Built[current_year][b[i]]]

BuildFails(b) ==
    \E i \in DOMAIN b : Built[current_year][b[i]] = BuildError

\* a variant that counts every replace_one that returned as an insertion
count_inserted_every_return(res) == inserted + 1

\* upsert_to_db's counters after a replace_one that returned res
count_inserted(res) ==
    IF Truthy(res.upserted_id) THEN inserted + 1 ELSE inserted

count_updated(res) ==
    IF ~Truthy(res.upserted_id) /\ res.modified_count # 0
    THEN updated + 1
    ELSE updated

\* print_summary: the counts it prints
print_summary(docs, ins, upd) ==
    [processed     |-> Len(docs),
     with_abstract |-> Cardinality({i \in DOMAIN docs :
                                       Truthy(docs[i].content.abstract)}),
     inserted      |-> ins,
     updated       |-> upd]

stageVars == <<dl_papers, jg_papers>>

extractVars == <<features_coll, ex_papers, ex_reprocess>>

runVars == <<batch, papers, k, inserted, updated, result, replaced, db_errors,
            summary>>

histVars == <<last_batch, first_papers, coll_before>>

\* main: fetch_papers and process_and_enrich, every document built
Main_Fetch(b) ==
    /\ pc = "idle"
    /\ ~BuildFails(b)
    /\ pc' = "upsert"
    /\ batch' = b
    /\ papers' = process_and_enrich(b)
    /\ k' = 1
    /\ inserted' = 0
    /\ updated' = 0
    /\ result' = NoResult
    /\ replaced' = None
    /\ db_errors' = {}
    /\ summary' = NoSummary
    /\ last_batch' = b
    /\ first_papers' = IF b = last_batch THEN first_papers
                       ELSE process_and_enrich(b)
    /\ coll_before' = papers_coll
    /\ UNCHANGED <<papers_coll, current_year, stageVars, probe, extractVars>>

\* main: build_paper_document raises inside process_and_enrich, which
\* catches nothing: the exception ends the process before upsert_to_db
Main_Crash(b) ==
    /\ pc = "idle"
    /\ BuildFails(b)
    /\ UNCHANGED vars

\* upsert_to_db: one iteration of the loop in which replace_one returns
Upsert_Step ==
    /\ pc = "upsert"
    /\ k <= Len(papers)
    /\ LET doc == papers[k]
           _id == doc._id
       IN  IF ~Truthy(_id)
           THEN UNCHANGED <<papers_coll, result, replaced, inserted, updated>>
           ELSE LET res == replace_one_result(papers_coll, _id, doc)
                IN  /\ papers_coll' = replace_one(papers_coll, _id, doc)
                    /\ result' = res
                    /\ replaced' = IF _id \in DOMAIN papers_coll
                                   THEN papers_coll[_id] ELSE None
                    /\ inserted' = count_inserted(res)
                    /\ updated' = count_updated(res)
    /\ k' = k + 1
    /\ UNCHANGED <<current_year, pc, batch, papers, db_errors, summary,
                   stageVars, histVars, probe, extractVars>>

\* upsert_to_db: one iteration in which replace_one raises (the store is
\* unreachable, or rejects the document); the except clause prints a line
Upsert_Raise ==
    /\ pc = "upsert"
    /\ k <= Len(papers)
    /\ Truthy(papers[k]._id)
    /\ db_errors' = db_errors \cup {k}
    /\ k' = k + 1
    /\ UNCHANGED <<papers_coll, current_year, pc, batch, papers, inserted,
                   updated, result, replaced, summary, stageVars, histVars,
                   probe, extractVars>>

\* upsert_to_db returns (inserted, updated); main prints the summary
Main_Summary ==
    /\ pc = "upsert"
    /\ k > Len(papers)
    /\ summary' = print_summary(papers, inserted, updated)
    /\ pc' = "done"
    /\ UNCHANGED <<papers_coll, current_year, batch, papers, k, inserted,
                   updated, result, replaced, db_errors, stageVars, histVars,
                   probe, extractVars>>

\* the process ends, and its variables with it
Main_Exit ==
    /\ pc = "done"
    /\ pc' = "idle"
    /\ batch' = <<>>
    /\ papers' = <<>>
    /\ k' = 0
    /\ inserted' = 0
    /\ updated' = 0
    /\ result' = NoResult
    /\ replaced' = None
    /\ db_errors' = {}
    /\ summary' = NoSummary
    /\ coll_before' = <<>>
    /\ UNCHANGED <<papers_coll, current_year, stageVars, last_batch,
                   first_papers, probe, extractVars>>

\* a new year begins (between the runs of the scripts)
Tick ==
    /\ pc = "idle"
    /\ current_year < StartYear + MaxTicks
    /\ current_year' = current_year + 1
    /\ UNCHANGED <<papers_coll, pc, runVars, stageVars, histVars,
                   probe, extractVars>>

(***************************************************************************)
(* download_pdfs.py                                                        *)
(***************************************************************************)
\* str(n) of an int
RECURSIVE NatText(_)
NatText(n) ==
    IF n < 10 THEN <<Digits[n + 1]>>
    ELSE NatText(n \div 10) \o <<Digits[(n % 10) + 1]>>

IntText(n) == IF n < 0 THEN <<"-">> \o NatText(0 - n) ELSE NatText(n)

\* s.replace(c, r) for one-character c and r
ReplaceChar(s, c, r) == [i \in DOMAIN s |-> IF s[i] = c THEN r ELSE s[i]]

\* s[-n:]
Suffix(s, n) == IF Len(s) <= n THEN s ELSE SubSeq(s, Len(s) - n + 1, Len(s))

\* the length safe_id is cut to
SafeIdLen == 50

PDF_DIR == <<"d","a","t","a","/","p","d","f","s">>

\* str(save_path) of a paper
save_path(paper) ==
    LET year    == Or(paper.year, Str(<<"u","n","k","n","o","w","n">>))
        safe_id == Suffix(ReplaceChar(ReplaceChar(paper._id.s, "/", "_"),
                                      ":", "_"), SafeIdLen)
        subdir  == IF year.t = "int" THEN IntText(year.n) ELSE year.s
    IN  Str(PDF_DIR \o <<"/">> \o subdir \o <<"/">> \o safe_id \o <<".","p","d","f">>)

\* a variant whose query leaves processing_status out: every document
\* with a PDF url is selected, whatever its status
download_query_any_status(coll) ==
    {coll[id] : id \in {i \in DOMAIN coll :
        coll[i].open_access.pdf_url # None}}

\* the documents the query of get_papers_to_download matches.  The filter
\* on open_access.pdf_url is a dict literal with the key "$ne" twice, of
\* which Python keeps the last: {"$ne": None}
download_query(coll) ==
    {coll[id] : id \in {i \in DOMAIN coll :
        /\ coll[i].open_access.pdf_url # None
        /\ coll[i].processing_status = "pending_download"}}

\* list(cursor) with cursor.limit(limit) when limit is truthy: the store
\* chooses which documents come first.  limit 0 stands for no limit (the
\* option left out, or larger than the collection)
Limited(docs, limit) ==
    IF limit = 0 \/ limit >= Cardinality(docs) THEN {docs}
    ELSE {S \in SUBSET docs : Cardinality(S) = limit}

Limits == {0, 1}

\* update_paper_status(db, paper_id, status, local_path)
update_paper_status(coll, paper_id, status, local_path) ==
    LET set_status(doc) ==
            IF Truthy(local_path)
            THEN [doc EXCEPT !.processing_status = status,
                             !.content.local_path = local_path]
            ELSE [doc EXCEPT !.processing_status = status]
    IN  update_one(coll, paper_id, set_status(coll[paper_id]))

\* main: the papers to download are read; with none of them main returns
Download_Start(limit) ==
    /\ pc = "idle"
    /\ download_query(papers_coll) # {}
    /\ dl_papers' \in Limited(download_query(papers_coll), limit)
    /\ pc' = "download"
    /\ UNCHANGED <<papers_coll, current_year, runVars, jg_papers, histVars,
                   probe, extractVars>>

\* main: one iteration of the loop, download_pdf returned (True, None)
Download_Ok(paper) ==
    /\ pc = "download"
    /\ paper \in dl_papers
    /\ papers_coll' = update_paper_status(papers_coll, paper._id,
                                          "downloaded", save_path(paper))
    /\ dl_papers' = dl_papers \ {paper}
    /\ UNCHANGED <<current_year, pc, runVars, jg_papers, histVars,
                   probe, extractVars>>

\* main: one iteration of the loop, download_pdf returned (False, err)
Download_Fail(paper) ==
    /\ pc = "download"
    /\ paper \in dl_papers
    /\ papers_coll' = update_paper_status(papers_coll, paper._id,
                                          "failed", None)
    /\ dl_papers' = dl_papers \ {paper}
    /\ UNCHANGED <<current_year, pc, runVars, jg_papers, histVars,
                   probe, extractVars>>

\* main: the loop is over
Download_End ==
    /\ pc = "download"
    /\ dl_papers = {}
    /\ pc' = "idle"
    /\ UNCHANGED <<papers_coll, current_year, runVars, stageVars, histVars,
                   probe, extractVars>>

(***************************************************************************)
(* analyze_jargon.py                                                       *)
(***************************************************************************)
IsLowerLetter(c) == \E i \in DOMAIN LowerCase : LowerCase[i] = c

\* a character \w matches (lowercased ASCII text)
IsWordChar(c) == IsLowerLetter(c) \/ IsDigit(c) \/ c = "_"

\* the maximal runs of word characters of s, the open run being cur
RECURSIVE WordRuns(_, _)
WordRuns(s, cur) ==
    IF s = <<>> THEN (IF cur = <<>> THEN <<>> ELSE <<cur>>)
    ELSE IF IsWordChar(Head(s)) THEN WordRuns(Tail(s), Append(cur, Head(s)))
    ELSE (IF cur = <<>> THEN <<>> ELSE <<cur>>) \o WordRuns(Tail(s), <<>>)

\* the shortest word that counts
MinWordLen == 3

\* the decimals the score is rounded to, as a power of ten
ScoreScale == 10000

\* the length of top_jargon
TopJargon == 10

IsCountedWord(w) ==
    Len(w) >= MinWordLen /\ \A i \in DOMAIN w : IsLowerLetter(w[i])

\* re.findall(r'\b[a-z]{3,}\b', text.lower())
FindWords(text) == SelectSeq(WordRuns(Lower(text), <<>>), IsCountedWord)

\* the dictionary load_common_words reads (a data file of the repository)
CommonWords == {<<"s","t","u","d","y">>, <<"t","h","e">>}

IsJargon(w) == w \notin CommonWords

\* Counter(words): each distinct word with its count, in first-seen order
RECURSIVE CountWords(_, _)
CountWords(words, counted) ==
    IF words = <<>> THEN counted
    ELSE LET w == Head(words)
         IN  IF \E i \in DOMAIN counted : counted[i].word = w
             THEN CountWords(Tail(words),
                      [i \in DOMAIN counted |->
                          IF counted[i].word = w
                          THEN [counted[i] EXCEPT !.count = @ + 1]
                          ELSE counted[i]])
             ELSE CountWords(Tail(words),
                      Append(counted, [word |-> w, count |-> 1]))

\* sorted by count, largest first, equal counts in first-seen order
RECURSIVE InsertByCount(_, _)
InsertByCount(sorted, c) ==
    IF sorted = <<>> THEN <<c>>
    ELSE IF sorted[Len(sorted)].count >= c.count THEN Append(sorted, c)
    ELSE Append(InsertByCount(SubSeq(sorted, 1, Len(sorted) - 1), c),
                sorted[Len(sorted)])

RECURSIVE SortByCount(_)
SortByCount(cs) ==
    IF cs = <<>> THEN <<>>
    ELSE InsertByCount(SortByCount(SubSeq(cs, 1, Len(cs) - 1)), cs[Len(cs)])

\* round(j / n, 4), as a fraction
RoundedShare(j, n) == Quot((2 * j * ScoreScale + n) \div (2 * n), ScoreScale)

calculate_jargon_score(text) ==
    IF ~Truthy(text) THEN None
    ELSE LET words        == FindWords(text.s)
             jargon_words == SelectSeq(words, IsJargon)
         IN  IF words = <<>> THEN None
             ELSE Dict([score        |-> RoundedShare(Len(jargon_words),
                                                      Len(words)),
                        total_words  |-> Len(words),
                        jargon_count |-> Len(jargon_words),
                        top_jargon   |-> Prefix(SortByCount(
                                             CountWords(jargon_words, <<>>)),
                                             TopJargon)])

\* the documents main's query matches: as in download_query, the filter on
\* content.abstract keeps only {"$ne": None}
jargon_query(coll) ==
    {coll[id] : id \in {i \in DOMAIN coll :
        /\ coll[i].content.abstract # None
        /\ "jargon" \notin DOMAIN coll[i]}}

\* save_jargon_to_db(db, paper_id, jargon_result)
save_jargon_to_db(coll, paper_id, jargon_result) ==
    LET set_jargon(doc) ==
            [f \in DOMAIN doc \cup {"jargon"} |->
                IF f = "jargon" THEN jargon_result ELSE doc[f]]
    IN  update_one(coll, paper_id, set_jargon(coll[paper_id]))

\* main: the papers to score are read; with none of them main returns
Jargon_Start(limit) ==
    /\ pc = "idle"
    /\ jargon_query(papers_coll) # {}
    /\ jg_papers' \in Limited(jargon_query(papers_coll), limit)
    /\ pc' = "jargon"
    /\ UNCHANGED <<papers_coll, current_year, runVars, dl_papers, histVars,
                   probe, extractVars>>

\* main: one iteration of the loop
Jargon_Step(paper) ==
    /\ pc = "jargon"
    /\ paper \in jg_papers
    /\ LET jargon_result == calculate_jargon_score(paper.content.abstract)
       IN  papers_coll' = IF Truthy(jargon_result)
                          THEN save_jargon_to_db(papers_coll, paper._id,
                                                 jargon_result)
                          ELSE papers_coll
    /\ jg_papers' = jg_papers \ {paper}
    /\ UNCHANGED <<current_year, pc, runVars, dl_papers, histVars,
                   probe, extractVars>>

\* main: the loop is over
Jargon_End ==
    /\ pc = "jargon"
    /\ jg_papers = {}
    /\ pc' = "idle"
    /\ UNCHANGED <<papers_coll, current_year, runVars, stageVars, histVars,
                   probe, extractVars>>

(***************************************************************************)
(* extract.py                                                              *)
(***************************************************************************)
SCRIPT_VERSION == <<"v","1",".","0">>

\* what extract_from_text may return: an annotated document with no
\* extraction, one with an extraction whose attributes are None, or an
\* object that has no attribute "extractions"
Annotated(extractions) == [extractions |-> extractions]

ExtractionResults ==
    {Annotated(<<>>),
     Annotated(<<[extraction_class |-> "method",
                  extraction_text  |-> <<"c","o","r","i","n","g">>,
                  attributes       |-> None]>>),
     [text |-> <<>>]}

\* the document save_extraction_to_db builds
extraction_doc(paper_id, extraction_result) ==
    LET extractions ==
            IF "extractions" \in DOMAIN extraction_result
            THEN [i \in DOMAIN extraction_result.extractions |->
                     LET ext == extraction_result.extractions[i]
                     IN  [class      |-> ext.extraction_class,
                          text       |-> ext.extraction_text,
                          attributes |-> Or(ext.attributes, EmptyDict)]]
            ELSE <<>>
    IN  [paper_id       |-> paper_id,
         script_version |-> SCRIPT_VERSION,
         data_points    |-> [extractions      |-> extractions,
                             extraction_count |-> Len(extractions)]]

\* a variant that inserts the document whatever the collection holds, as
\* insert_one(doc) would
replace_one_by_paper_id_insert(coll, paper_id, doc) == Append(coll, doc)

\* the collection after replace_one({"paper_id": paper_id}, doc,
\* upsert=True): the first document that matches is replaced, and with
\* none the document is inserted
replace_one_by_paper_id(coll, paper_id, doc) ==
    IF \E i \in DOMAIN coll : coll[i].paper_id = paper_id
    THEN LET first == CHOOSE i \in DOMAIN coll :
                          /\ coll[i].paper_id = paper_id
                          /\ \A j \in 1..(i - 1) : coll[j].paper_id # paper_id
         IN  [coll EXCEPT ![first] = doc]
    ELSE Append(coll, doc)

\* save_extraction_to_db(db, paper_id, extraction_result)
save_extraction_to_db(coll, paper_id, extraction_result) ==
    replace_one_by_paper_id(coll, paper_id,
                            extraction_doc(paper_id, extraction_result))

\* the documents the query of get_papers_to_process matches: as in
\* download_query, the filter on content.abstract keeps only {"$ne": None}
extract_query(coll) ==
    {coll[id] : id \in {i \in DOMAIN coll : coll[i].content.abstract # None}}

\* get_papers_to_process(db, limit, only_unprocessed): the lists it may
\* return, as sets
get_papers_to_process(coll, features, limit, only_unprocessed) ==
    IF only_unprocessed
    THEN LET processed_ids == {features[i].paper_id : i \in DOMAIN features}
         IN  Limited({p \in extract_query(coll) : p._id \notin processed_ids},
                     limit)
    ELSE Limited(extract_query(coll), limit)

\* process_papers: the papers to process are read; with no paper in the
\* store, or none to process, it returns
Extract_Start(limit, reprocess) ==
    /\ pc = "idle"
    /\ DOMAIN papers_coll # {}
    /\ \E selected \in get_papers_to_process(papers_coll, features_coll,
                                              limit, ~reprocess) :
          /\ selected # {}
          /\ ex_papers' = selected
    /\ ex_reprocess' = reprocess
    /\ pc' = "extract"
    /\ UNCHANGED <<papers_coll, current_year, runVars, stageVars, histVars,
                   probe, features_coll>>

\* process_papers: one iteration of the loop, extract_from_text returned
\* and the result is saved
Extract_Step(paper, extraction_result) ==
    /\ pc = "extract"
    /\ paper \in ex_papers
    /\ features_coll' = save_extraction_to_db(features_coll, paper._id,
                                              extraction_result)
    /\ ex_papers' = ex_papers \ {paper}
    /\ UNCHANGED <<papers_coll, current_year, pc, runVars, stageVars,
                   histVars, probe, ex_reprocess>>

\* process_papers: one iteration in which extract_from_text or
\* save_extraction_to_db raises; the except clause notes the error
Extract_Raise(paper) ==
    /\ pc = "extract"
    /\ paper \in ex_papers
    /\ ex_papers' = ex_papers \ {paper}
    /\ UNCHANGED <<papers_coll, current_year, pc, runVars, stageVars,
                   histVars, probe, features_coll, ex_reprocess>>

\* process_papers: the loop is over
Extract_End ==
    /\ pc = "extract"
    /\ ex_papers = {}
    /\ pc' = "idle"
    /\ ex_reprocess' = FALSE
    /\ UNCHANGED <<papers_coll, current_year, runVars, stageVars, histVars,
                   probe, features_coll, ex_papers>>

(***************************************************************************)
(* The pipeline: the scripts are run one at a time, in any order           *)
(***************************************************************************)
InitRun ==
    /\ pc = "idle"
    /\ batch = <<>>
    /\ papers = <<>>
    /\ k = 0
    /\ inserted = 0
    /\ updated = 0
    /\ result = NoResult
    /\ replaced = None
    /\ db_errors = {}
    /\ summary = NoSummary
    /\ dl_papers = {}
    /\ jg_papers = {}
    /\ last_batch = <<>>
    /\ first_papers = <<>>
    /\ coll_before = <<>>
    /\ features_coll = <<>>
    /\ ex_papers = {}
    /\ ex_reprocess = FALSE

Init ==
    /\ papers_coll = <<>>
    /\ current_year = StartYear
    /\ InitRun
    /\ probe = NoProbe

Next ==
    \/ \E b \in Batches : Main_Fetch(b)
    \/ \E b \in Batches : Main_Crash(b)
    \/ Upsert_Step
    \/ Upsert_Raise
    \/ Main_Summary
    \/ Main_Exit
    \/ Tick
    \/ \E limit \in Limits : Download_Start(limit)
    \/ \E paper \in dl_papers : Download_Ok(paper)
    \/ \E paper \in dl_papers : Download_Fail(paper)
    \/ Download_End
    \/ \E limit \in Limits : Jargon_Start(limit)
    \/ \E paper \in jg_papers : Jargon_Step(paper)
    \/ Jargon_End

Spec == Init /\ [][Next]_vars

(***************************************************************************)
(* Properties of upsert_to_db and of the stored documents                  *)
(***************************************************************************)
\* a step of upsert_to_db in which replace_one returned for papers[k]
UpsertReturned ==
    /\ pc = "upsert"
    /\ k <= Len(papers)
    /\ k' = k + 1
    /\ db_errors' = db_errors

\* C1: upserting a record whose identifier the store does not hold adds one
\* to inserted and nothing to updated; upserting the record the store
\* already holds for its identifier adds one to updated and nothing to
\* inserted; either way the store then holds that record under its
\* identifier.
C1_UpsertTwice ==
    [][UpsertReturned =>
        LET doc == papers[k]
            _id == doc._id
        IN  /\ _id \notin DOMAIN papers_coll
                => inserted' = inserted + 1 /\ updated' = updated
            /\ (_id \in DOMAIN papers_coll /\ papers_coll[_id] = doc)
                => updated' = updated + 1 /\ inserted' = inserted
            /\ papers_coll'[_id] = doc]_vars

\* index j holds the last record of the run with its identifier whose
\* upsert did not raise
LastWritten(j) ==
    /\ j \notin db_errors
    /\ \A i \in DOMAIN papers :
          (i > j /\ papers[i]._id = papers[j]._id) => i \in db_errors

\* every record of the run whose upsert did not raise is in the store
OthersUpserted ==
    \A j \in DOMAIN papers :
        /\ j \notin db_errors => papers[j]._id \in DOMAIN papers_coll
        /\ LastWritten(j) => papers_coll[papers[j]._id] = papers[j]

\* the number of failures the summary tells: its failure count if it has
\* one, else what is left of the processed records after the inserted and
\* the updated ones
ReportedFailures ==
    IF "failed" \in DOMAIN summary THEN summary.failed
    ELSE summary.processed - summary.inserted - summary.updated

\* C2: when replace_one raises for exactly one record of a run, every other
\* record is still upserted and the summary of the run tells exactly one
\* failure.
C2_OneFailureReported ==
    (pc = "done" /\ Cardinality(db_errors) = 1)
        => (OthersUpserted /\ ReportedFailures = 1)

\* index i holds the last record of docs with its identifier
LastOfId(docs, i) ==
    \A j \in DOMAIN docs : docs[j]._id = docs[i]._id => j <= i

C4_WholeDocumentReplaced ==
    [][(UpsertReturned /\ papers[k]._id \in DOMAIN papers_coll)
        => /\ papers_coll'[papers[k]._id] = papers[k]
           /\ DOMAIN papers_coll'[papers[k]._id] = DOMAIN papers[k]
           /\ "jargon" \notin DOMAIN papers_coll'[papers[k]._id]]_vars

\* a document that the download and jargon stages had written to has been
\* replaced
C4_Witness ==
    /\ pc = "upsert"
    /\ replaced # None
    /\ "jargon" \in DOMAIN replaced
    /\ replaced.processing_status = "downloaded"
    /\ replaced.content.local_path # None
    /\ papers_coll[replaced._id] = papers[k - 1]

\* C5 as stated: no step of upsert_to_db changes a stored
\* processing_status of no_pdf_available.
C5_NeverLeavesNoPdf ==
    [][\A id \in DOMAIN papers_coll :
          (pc = "upsert"
           /\ papers_coll[id].processing_status = "no_pdf_available")
              => papers_coll'[id].processing_status = "no_pdf_available"]_vars

\* C5 amended: a step of upsert_to_db changes a stored processing_status of
\* no_pdf_available only to pending_download, and only when the PDF url
\* resolved from the fresh payloads is not empty.
C5_LeavesNoPdfOnlyWithUrl ==
    [][\A id \in DOMAIN papers_coll :
          (/\ pc = "upsert"
           /\ papers_coll[id].processing_status = "no_pdf_available"
           /\ papers_coll'[id].processing_status # "no_pdf_available")
              => /\ papers_coll'[id].processing_status = "pending_download"
                 /\ papers_coll'[id].open_access.pdf_url # EmptyStr
                 /\ papers_coll'[id].open_access.pdf_url # None]_vars

\* a record stored as no_pdf_available has been upserted again with a url
\* and is now pending_download
C5_Witness ==
    /\ pc = "upsert"
    /\ replaced # None
    /\ replaced.processing_status = "no_pdf_available"
    /\ papers_coll[replaced._id].processing_status = "pending_download"
    /\ Truthy(papers_coll[replaced._id].open_access.pdf_url)

\* the tier the thresholds give a score num/den
Tier(score) ==
    IF score.num > 5 * score.den THEN "HIGH"
    ELSE IF score.num = 5 * score.den THEN "MODERATE"
    ELSE IF score.num > score.den THEN "MODERATE"
    ELSE IF score.num = score.den THEN "LOW"
    ELSE "LOW"

\* C7: in every state of the store, each document's impact.classification
\* is the tier of its impact.citations_per_year: HIGH above 5, MODERATE
\* above 1 and up to 5, LOW up to 1.
C7_ClassificationMatchesScore ==
    \A id \in DOMAIN papers_coll :
        papers_coll[id].impact.classification
            = Tier(papers_coll[id].impact.citations_per_year)

\* the store holds a document in each tier and one at each boundary score
C7_Witness ==
    /\ \E id \in DOMAIN papers_coll :
          /\ papers_coll[id].impact.citations_per_year = [num |-> 5, den |-> 1]
          /\ papers_coll[id].impact.classification = "MODERATE"
          /\ "jargon" \in DOMAIN papers_coll[id]
    /\ \E id \in DOMAIN papers_coll :
          /\ papers_coll[id].impact.citations_per_year = [num |-> 1, den |-> 1]
          /\ papers_coll[id].impact.classification = "LOW"
          /\ papers_coll[id].processing_status = "downloaded"

(***************************************************************************)
(* normalize_doi on its own: it is applied to an identifier, and then to   *)
(* its own result                                                          *)
(***************************************************************************)
\* the largest number of fragments an identifier is put together from
MaxParts == 3

DoiParts ==
    {HTTPS_PREFIX, HTTP_PREFIX, <<" ">>, <<"1","0",".","1","/","X">>, <<"h">>, <<"t","t","p","s",":","/","/","d","o","i",".","o","r","g","/">>}

RECURSIVE Concat(_)
Concat(parts) == IF parts = <<>> THEN <<>> ELSE Head(parts) \o Concat(Tail(parts))

DoiInputs ==
    {None} \cup {Str(Concat(ps)) :
                    ps \in UNION {[1..n -> DoiParts] : n \in 0..MaxParts}}

InitNormalize ==
    /\ papers_coll = <<>>
    /\ current_year = StartYear
    /\ InitRun
    /\ probe \in {[fn |-> "normalize_doi", step |-> 0, arg |-> a,
                   out |-> None, again |-> None] : a \in DoiInputs}

pipeVars == <<papers_coll, current_year, pc, runVars, stageVars, histVars,
              extractVars>>

\* normalize_doi(arg)
Normalize_Call ==
    /\ probe.fn = "normalize_doi"
    /\ probe.step = 0
    /\ probe' = [probe EXCEPT !.step = 1, !.out = normalize_doi(probe.arg)]
    /\ UNCHANGED pipeVars

\* normalize_doi(normalize_doi(arg))
Normalize_Again ==
    /\ probe.fn = "normalize_doi"
    /\ probe.step = 1
    /\ probe' = [probe EXCEPT !.step = 2, !.again = normalize_doi(probe.out)]
    /\ UNCHANGED pipeVars

NextNormalize == Normalize_Call \/ Normalize_Again

SpecNormalize == InitNormalize /\ [][NextNormalize]_vars

\* C8: normalize_doi applied to its own result returns that result.
C8_Idempotent ==
    (probe.fn = "normalize_doi" /\ probe.step = 2) => probe.again = probe.out

\* the identifier with exactly its leading resolver prefix taken off
WithoutLeadingPrefix(s) ==
    IF StartsWith(s, HTTPS_PREFIX) THEN SubSeq(s, Len(HTTPS_PREFIX) + 1, Len(s))
    ELSE IF StartsWith(s, HTTP_PREFIX)
         THEN SubSeq(s, Len(HTTP_PREFIX) + 1, Len(s))
         ELSE s

\* C9: normalize_doi returns None for None and for the empty string, and
\* otherwise the lowercased, trimmed identifier without its leading resolver
\* prefix and otherwise unaltered, which has no whitespace at either end.
C9_BareIdentifier ==
    (probe.fn = "normalize_doi" /\ probe.step >= 1)
        => IF probe.arg = None \/ probe.arg = EmptyStr
           THEN probe.out = None
           ELSE /\ probe.out = Str(WithoutLeadingPrefix(Strip(Lower(probe.arg.s))))
                /\ probe.out.s = Strip(probe.out.s)

(***************************************************************************)
(* impact_score on its own                                                 *)
(***************************************************************************)
YearInputs ==
    {None, Str(<<"n","/","a">>), Str(IntText(StartYear - 1)), Str(<<"0">>),
     Int_(0), Int_(1), Int_(0 - 1), Int_(StartYear - 1), Int_(StartYear),
     Int_(StartYear + 1), Int_(StartYear + MaxTicks + 1)}

CitationInputs ==
    {None, Str(<<"n","/","a">>), Str(<<"7">>), Int_(0), Int_(0 - 3), Int_(12)}

InitImpact ==
    /\ papers_coll = <<>>
    /\ current_year \in Years
    /\ InitRun
    /\ probe \in {[fn |-> "impact_score", step |-> 0, citations |-> c,
                   publication_year |-> y, age |-> 0,
                   score |-> [num |-> 0, den |-> 1]] :
                     c \in CitationInputs, y \in YearInputs}

\* impact_score(citations, publication_year), and the age it divides by
Impact_Call ==
    /\ probe.fn = "impact_score"
    /\ probe.step = 0
    /\ probe' = [probe EXCEPT
                    !.step = 1,
                    !.age = impact_age(current_year, probe.publication_year),
                    !.score = impact_score(current_year, probe.citations,
                                           probe.publication_year)]
    /\ UNCHANGED pipeVars

NextImpact == Impact_Call

SpecImpact == InitImpact /\ [][NextImpact]_vars

\* C10: the age is 1 when the publication year is missing, no number or
\* after the current year, and max(1, current year - year + 1) for every
\* other year; so it is at least 1.
C10_Age ==
    (probe.fn = "impact_score" /\ probe.step = 1)
        => LET y == IntOf(probe.publication_year)
           IN  /\ probe.age >= 1
               /\ probe.age = IF ~y.ok \/ y.n > current_year THEN 1
                              ELSE Max(1, current_year - y.n + 1)

(***************************************************************************)
(* build_paper_document on its own, over the payload fields that the PDF   *)
(* url and the open-access flag are resolved from                          *)
(***************************************************************************)
BestLocations(url) ==
    {None, Str(<<"n","/","a">>), Dict([url_for_pdf |-> EmptyStr]),
     Dict([url_for_pdf |-> Str(url)])}

PrimaryLocations ==
    {None, Dict([pdf_url |-> EmptyStr]), Dict([pdf_url |-> Str(<<"u","3">>)])}

StatusWorks ==
    {Dict([id |-> Str(<<"W","1">>), title |-> Str(<<"S","o","i","l">>), is_oa |-> oa,
           best_oa_location |-> best, primary_location |-> prim]) :
        oa \in {None, Bool(TRUE), Bool(FALSE)},
        best \in BestLocations(<<"u","1">>),
        prim \in PrimaryLocations}

StatusUnpaywalls ==
    {None, EmptyDict}
    \cup {Dict([is_oa |-> oa, best_oa_location |-> best, url |-> url]) :
            oa \in {Bool(TRUE), Bool(FALSE)},
            best \in {None, Dict([url_for_pdf |-> Str(<<"u","2">>)])},
            url \in {None, EmptyStr, Str(<<"u","4">>)}}

InitBuild ==
    /\ papers_coll = <<>>
    /\ current_year = StartYear
    /\ InitRun
    /\ probe \in {[fn |-> "build_paper_document", step |-> 0, work |-> w,
                   crossref |-> EmptyDict, unpaywall |-> u, out |-> None] :
                     w \in StatusWorks, u \in StatusUnpaywalls}

\* build_paper_document(work, crossref, unpaywall)
Build_Call ==
    /\ probe.fn = "build_paper_document"
    /\ probe.step = 0
    /\ probe' = [probe EXCEPT
                    !.step = 1,
                    !.out = build_paper_document(current_year, probe.work,
                                probe.crossref, probe.unpaywall)]
    /\ UNCHANGED pipeVars

NextBuild == Build_Call

SpecBuild == InitBuild /\ [][NextBuild]_vars

\* C6: the record build_paper_document returns has processing_status
\* pending_download when its open_access.pdf_url is not empty and
\* no_pdf_available when it is, whatever is_oa is.
C6_StatusFollowsPdfUrl ==
    (probe.fn = "build_paper_document" /\ probe.step = 1)
        => /\ probe.out # BuildError
           /\ probe.out.processing_status =
                 IF probe.out.open_access.pdf_url # EmptyStr
                 THEN "pending_download"
                 ELSE "no_pdf_available"

\* a record flagged open access with no PDF url, built from payloads whose
\* last candidate url is the empty string
C6_Witness ==
    /\ probe.fn = "build_paper_document"
    /\ probe.step = 1
    /\ probe.out.open_access.is_oa
    /\ probe.out.open_access.pdf_url = EmptyStr
    /\ probe.out.processing_status = "no_pdf_available"
    /\ probe.unpaywall # None
    /\ Get(probe.unpaywall, "url") = EmptyStr

(***************************************************************************)
(* impact_score: the citation count it divides                             *)
(***************************************************************************)
\* C11: whatever the citation count and the year, citations_per_year is
\* never negative, and it is 0 when the citation count is missing or no
\* number.
C11_NeverNegative ==
    (probe.fn = "impact_score" /\ probe.step = 1)
        => /\ probe.score.num >= 0
           /\ ~FloatOf(probe.citations).ok => probe.score.num = 0

(***************************************************************************)
(* build_paper_document on its own, over the numeric fields of the primary *)
(* payload: the citation count, the publication year and the per-year      *)
(* citation series, each absent, None, negative, text or a number          *)
(***************************************************************************)
NotANumber == Str(<<"n","/","a">>)

\* the values of work['cited_by_count']; the first stands for a missing key
CountFields ==
    {[has |-> FALSE, v |-> None]}
    \cup {[has |-> TRUE, v |-> v] :
            v \in {None, Int_(0), Int_(0 - 3), Int_(12), Str(<<"7">>),
                   NotANumber}}

\* the values of work['publication_year']
YearFields ==
    {[has |-> FALSE, v |-> None]}
    \cup {[has |-> TRUE, v |-> v] :
            v \in {None, Int_(0), Int_(0 - 1), Int_(StartYear - 1),
                   Int_(StartYear + 1), Str(IntText(StartYear - 1)),
                   NotANumber}}

\* one entry of work['counts_by_year']
YearCount(year, count) == Dict([year |-> Int_(year), cited_by_count |-> count])

\* the values of work['counts_by_year']: the catalog lists the latest year
\* first; the other orders and the malformed entries are there as well
SeriesFields ==
    {[has |-> FALSE, v |-> None]}
    \cup {[has |-> TRUE, v |-> v] :
            v \in {None, List(<<>>),
                   List(<<YearCount(StartYear, Int_(4)),
                          YearCount(StartYear - 1, Int_(11))>>),
                   List(<<YearCount(StartYear - 1, Int_(11)),
                          YearCount(StartYear, Int_(4))>>),
                   List(<<YearCount(StartYear, Int_(6))>>),
                   List(<<YearCount(StartYear, Int_(0 - 2))>>),
                   List(<<YearCount(StartYear, NotANumber)>>),
                   List(<<YearCount(StartYear, None)>>),
                   List(<<Dict([year |-> Int_(StartYear)])>>)}}

\* the dict with the keys that are there
WithFields(base, count, year, series) ==
    Dict([f \in DOMAIN base
                \cup (IF count.has THEN {"cited_by_count"} ELSE {})
                \cup (IF year.has THEN {"publication_year"} ELSE {})
                \cup (IF series.has THEN {"counts_by_year"} ELSE {}) |->
            CASE f = "cited_by_count"   -> count.v
              [] f = "publication_year" -> year.v
              [] f = "counts_by_year"   -> series.v
              [] OTHER                  -> base[f]])

NumericWorks ==
    {WithFields([id |-> Str(<<"W","1">>), title |-> Str(<<"S","o","i","l">>)],
                c, y, s) :
        c \in CountFields, y \in YearFields, s \in SeriesFields}

InitNumeric ==
    /\ papers_coll = <<>>
    /\ current_year = StartYear
    /\ InitRun
    /\ probe \in {[fn |-> "build_paper_document", step |-> 0, work |-> w,
                   crossref |-> c, unpaywall |-> u, out |-> None] :
                     w \in NumericWorks,
                     c \in {None, EmptyDict, CrossrefHit},
                     u \in {EmptyDict, UnpaywallHit}}

SpecNumeric == InitNumeric /\ [][NextBuild]_vars

\* C12: build_paper_document returns a record, and raises nothing, whatever
\* the citation count, the publication year and the per-year series of the
\* primary payload are, and whatever the secondary payloads are.
C12_NeverRaises ==
    (probe.fn = "build_paper_document" /\ probe.step = 1)
        => probe.out # BuildError

(***************************************************************************)
(* get_papers.py on its own, with the ways its process ends before the     *)
(* summary: pc = "exit" after sys.exit(1), pc = "raised" after an          *)
(* exception nothing catches.  summary then holds what the process printed *)
(* last.                                                                   *)
(***************************************************************************)
\* the first record of the batch on which build_paper_document raises
FirstFailure(b) ==
    CHOOSE i \in DOMAIN b :
        /\ Built[current_year][b[i]] = BuildError
        /\ \A j \in 1..(i - 1) : Built[current_year][b[j]] # BuildError

\* the module's configuration: TOPIC_ID is not set, sys.exit(1) at import
Config_Exit ==
    /\ pc = "idle"
    /\ pc' = "exit"
    /\ summary' = [error |-> "TOPIC_ID not set"]
    /\ UNCHANGED <<papers_coll, current_year, batch, papers, k, inserted,
                   updated, result, replaced, db_errors, stageVars, histVars,
                   probe, extractVars>>

\* fetch_papers: the request to the catalog fails or its response is no
\* JSON, sys.exit(1)
Fetch_Exit ==
    /\ pc = "idle"
    /\ pc' = "exit"
    /\ summary' = [error |-> "API request failed"]
    /\ UNCHANGED <<papers_coll, current_year, batch, papers, k, inserted,
                   updated, result, replaced, db_errors, stageVars, histVars,
                   probe, extractVars>>

\* process_and_enrich: build_paper_document raises on record k of the
\* results; the loop catches nothing, so the documents built before it are
\* never returned to main
Enrich_Raise(b) ==
    /\ pc = "idle"
    /\ BuildFails(b)
    /\ pc' = "raised"
    /\ batch' = b
    /\ papers' = <<>>
    /\ k' = FirstFailure(b)
    /\ summary' = [error |-> "ValueError", where |-> "process_and_enrich"]
    /\ UNCHANGED <<papers_coll, current_year, inserted, updated, result,
                   replaced, db_errors, stageVars, histVars,
                   probe, extractVars>>

\* upsert_to_db: get_db() raises before the loop, because no server answers
\* at the address get_client chose; without credentials get_client prints a
\* warning and chooses localhost
GetDb_Raise(credentials) ==
    /\ pc = "upsert"
    /\ k = 1
    /\ pc' = "raised"
    /\ summary' = IF credentials
                  THEN [error |-> "ServerSelectionTimeoutError",
                        where |-> "get_db"]
                  ELSE [error   |-> "ServerSelectionTimeoutError",
                        where   |-> "get_db",
                        warning |-> "No Mongo credentials found"]
    /\ UNCHANGED <<papers_coll, current_year, batch, papers, k, inserted,
                   updated, result, replaced, db_errors, stageVars, histVars,
                   probe, extractVars>>

\* the process has ended early, and its variables with it
Main_Halted ==
    /\ pc \in {"exit", "raised"}
    /\ pc' = "idle"
    /\ batch' = <<>>
    /\ papers' = <<>>
    /\ k' = 0
    /\ inserted' = 0
    /\ updated' = 0
    /\ result' = NoResult
    /\ replaced' = None
    /\ db_errors' = {}
    /\ summary' = NoSummary
    /\ coll_before' = <<>>
    /\ UNCHANGED <<papers_coll, current_year, stageVars, last_batch,
                   first_papers, probe, extractVars>>

NextRun ==
    \/ Config_Exit
    \/ Fetch_Exit
    \/ \E b \in Batches : Main_Fetch(b)
    \/ \E b \in Batches : Enrich_Raise(b)
    \/ \E credentials \in BOOLEAN : GetDb_Raise(credentials)
    \/ Upsert_Step
    \/ Upsert_Raise
    \/ Main_Summary
    \/ Main_Exit
    \/ Main_Halted

SpecRun == Init /\ [][NextRun]_vars

\* C13: when the reconciliation of one record of a batch fails, the other
\* records of the batch are still reconciled and returned: once
\* process_and_enrich is over, the documents of the run hold the document
\* of every record of the batch that build_paper_document can build.
C13_FailureLocalized ==
    pc \in {"upsert", "done", "raised"}
        => \A i \in DOMAIN batch :
              Built[current_year][batch[i]] # BuildError
                  => \E j \in DOMAIN papers :
                        papers[j] = Built[current_year][batch[i]]

\* the process ended early because a required parameter of its
\* configuration is missing: the topic filter, or the store's credentials
ConfigurationError ==
    \/ summary.error = "TOPIC_ID not set"
    \/ "warning" \in DOMAIN summary

\* C14: a run that ends early ends because of a configuration error, and it
\* ends before any record is fetched, reconciled or upserted.
C14_OnlyConfigurationHalts ==
    pc \in {"exit", "raised"}
        => /\ ConfigurationError
           /\ batch = <<>>
           /\ papers = <<>>
           /\ inserted = 0 /\ updated = 0 /\ db_errors = {}

(***************************************************************************)
(* build_paper_document on its own, over the fields the identifier is      *)
(* taken from: the catalog's id, the DOI and the title                     *)
(***************************************************************************)
\* a title one character longer than the excerpt of a fallback id
LongTitle == [i \in 1..(TitleExcerpt + 1) |-> IF i <= TitleExcerpt THEN "t" ELSE "!"]

\* the values of work['id'], work['doi'] and work['title']; the first of
\* each stands for a missing key
IdFields ==
    {[has |-> FALSE, v |-> None]}
    \cup {[has |-> TRUE, v |-> v] : v \in {None, EmptyStr, Str(<<"W","1">>)}}

DoiFields ==
    {[has |-> FALSE, v |-> None]}
    \cup {[has |-> TRUE, v |-> v] :
            v \in {None, EmptyStr, Str(<<" ">>),
                   Str(HTTPS_PREFIX \o <<"1","0",".","1","/","B">>),
                   Str(<<"1","0",".","1","/","b">>)}}

TitleFields ==
    {[has |-> FALSE, v |-> None]}
    \cup {[has |-> TRUE, v |-> v] :
            v \in {None, EmptyStr, Str(<<"S","o","i","l">>), Str(LongTitle)}}

IdentityWorks ==
    {Dict([f \in (IF id.has THEN {"id"} ELSE {})
                  \cup (IF doi.has THEN {"doi"} ELSE {})
                  \cup (IF title.has THEN {"title"} ELSE {}) |->
             CASE f = "id"  -> id.v
               [] f = "doi" -> doi.v
               [] OTHER     -> title.v]) :
        id \in IdFields, doi \in DoiFields, title \in TitleFields}

InitIdentity ==
    /\ papers_coll = <<>>
    /\ current_year = StartYear
    /\ InitRun
    /\ probe \in {[fn |-> "build_paper_document", step |-> 0, work |-> w,
                   crossref |-> EmptyDict, unpaywall |-> EmptyDict,
                   out |-> None] : w \in IdentityWorks}

SpecIdentity == InitIdentity /\ [][NextBuild]_vars

\* a field of the payload that is there and not empty
Present(d, key) == key \in DOMAIN d.d /\ d.d[key] \notin {None, EmptyStr}

\* C15: the record's _id is the catalog's id if the payload has one, else
\* the normalized DOI if there is one, else 'auto:' followed by the first
\* 80 characters of the title at most; it is never empty, so upsert_to_db's
\* test `if not _id` never skips the record.
C15_CanonicalId ==
    (probe.fn = "build_paper_document" /\ probe.step = 1)
        => LET work  == probe.work
               doi   == IF Present(work, "doi")
                        THEN normalize_doi(work.d["doi"]) ELSE None
               title == probe.out.title.s
               n     == IF Len(title) < 80 THEN Len(title) ELSE 80
           IN  /\ probe.out # BuildError
               /\ probe.out._id =
                     IF Present(work, "id") THEN work.d["id"]
                     ELSE IF doi \notin {None, EmptyStr} THEN doi
                     ELSE Str(AutoPrefix \o SubSeq(title, 1, n))
               /\ probe.out._id.t = "str"
               /\ probe.out._id.s # <<>>
               /\ Truthy(probe.out._id)

\* a record with no id and a blank DOI, whose title is longer than the
\* excerpt: its _id is the prefix and the first 80 characters of the title
C15_Witness ==
    /\ probe.fn = "build_paper_document"
    /\ probe.step = 1
    /\ ~Present(probe.work, "id")
    /\ "doi" \in DOMAIN probe.work.d
    /\ probe.work.d["doi"] = Str(<<" ">>)
    /\ probe.out.title = Str(LongTitle)
    /\ probe.out._id.s = AutoPrefix \o SubSeq(LongTitle, 1, 80)
    /\ Len(probe.out._id.s) = 85

(***************************************************************************)
(* The identifiers of the store, under the whole pipeline                  *)
(***************************************************************************)
\* C16: no step of the pipeline takes an identifier out of the store, and
\* each stored document carries the identifier it is stored under, so an
\* identifier has one document and a document keeps its identifier.
C16_IdentifiersKept ==
    [][/\ DOMAIN papers_coll \subseteq DOMAIN papers_coll'
       /\ \A id \in DOMAIN papers_coll' : papers_coll'[id]._id = id]_vars

\* the store holds two identifiers; one document was replaced by an upsert,
\* one was marked downloaded and one was given a jargon score
C16_Witness ==
    /\ pc = "upsert"
    /\ replaced # None
    /\ Cardinality(DOMAIN papers_coll) = 2
    /\ \E id \in DOMAIN papers_coll :
          papers_coll[id].processing_status = "downloaded"
    /\ \E id \in DOMAIN papers_coll : "jargon" \in DOMAIN papers_coll[id]

(***************************************************************************)
(* build_paper_document on its own, over the fields the abstract is taken  *)
(* from                                                                    *)
(***************************************************************************)
SoilsIndex ==
    ODict(<<[k |-> Str(<<"W","e">>),             v |-> List(<<Int_(0)>>)],
            [k |-> Str(<<"s","t","u","d","y">>), v |-> List(<<Int_(2)>>)],
            [k |-> Str(<<"s","o","i","l","s">>), v |-> List(<<Int_(1)>>)]>>)

\* the values of work['abstract'] and work['abstract_inverted_index']
PlainFields ==
    {[has |-> FALSE, v |-> None]}
    \cup {[has |-> TRUE, v |-> v] :
            v \in {None, EmptyStr, Str(<<"W","e"," ","d","i","g">>)}}

IndexFields ==
    {[has |-> FALSE, v |-> None]}
    \cup {[has |-> TRUE, v |-> v] :
            v \in {None, ODict(<<>>),
                   ODict(<<[k |-> Str(<<"W","e">>), v |-> List(<<>>)]>>),
                   SoilsIndex}}

AbstractWorks ==
    {Dict([f \in {"id"} \cup (IF plain.has THEN {"abstract"} ELSE {})
                  \cup (IF index.has THEN {"abstract_inverted_index"} ELSE {})
              |-> CASE f = "id"       -> Str(<<"W","1">>)
                    [] f = "abstract" -> plain.v
                    [] OTHER          -> index.v]) :
        plain \in PlainFields, index \in IndexFields}

\* the secondary payloads, each with and without an abstract of its own
AbstractCrossrefs ==
    {None, EmptyDict, Dict([abstract |-> None]), Dict([abstract |-> EmptyStr]),
     Dict([abstract |-> Str(<<"C","r">>)])}

AbstractUnpaywalls ==
    {EmptyDict, Dict([abstract |-> Str(<<"U","p">>)])}

InitAbstract ==
    /\ papers_coll = <<>>
    /\ current_year = StartYear
    /\ InitRun
    /\ probe \in {[fn |-> "build_paper_document", step |-> 0, work |-> w,
                   crossref |-> c, unpaywall |-> u, out |-> None] :
                     w \in AbstractWorks, c \in AbstractCrossrefs,
                     u \in AbstractUnpaywalls}

SpecAbstract == InitAbstract /\ [][NextBuild]_vars

\* the first value of a sequence that is there and not empty, else ''
FirstPresent(values) ==
    IF \E i \in DOMAIN values : values[i] \notin {None, EmptyStr}
    THEN values[CHOOSE i \in DOMAIN values :
                   /\ values[i] \notin {None, EmptyStr}
                   /\ \A j \in 1..(i - 1) : values[j] \in {None, EmptyStr}]
    ELSE EmptyStr

\* a field of a payload, None when the payload or the field is missing
FieldOf(payload, key) ==
    IF payload.t = "dict" /\ key \in DOMAIN payload.d THEN payload.d[key]
    ELSE None

\* C17 as stated: the abstract is the first non-empty value of the primary
\* payload's abstract, the text of its inverted index and the abstract of
\* the open-access payload (unpaywall), else the empty string.
C17_AbstractFromUnpaywall ==
    (probe.fn = "build_paper_document" /\ probe.step = 1)
        => probe.out.content.abstract =
              FirstPresent(<<
                  FieldOf(probe.work, "abstract"),
                  _reconstruct_abstract(
                      FieldOf(probe.work, "abstract_inverted_index")),
                  FieldOf(probe.unpaywall, "abstract")>>)

\* C17 amended: the abstract is the first non-empty value of the primary
\* payload's abstract, the text of its inverted index and the abstract of
\* the first secondary payload (crossref), else the empty string; the
\* open-access payload plays no part.
C17_AbstractFromCrossref ==
    (probe.fn = "build_paper_document" /\ probe.step = 1)
        => probe.out.content.abstract =
              FirstPresent(<<
                  FieldOf(probe.work, "abstract"),
                  _reconstruct_abstract(
                      FieldOf(probe.work, "abstract_inverted_index")),
                  FieldOf(probe.crossref, "abstract")>>)

\* a record whose abstract is the text of the inverted index, though both
\* secondary payloads have an abstract
C17_Witness ==
    /\ probe.fn = "build_paper_document"
    /\ probe.step = 1
    /\ FieldOf(probe.work, "abstract") = EmptyStr
    /\ FieldOf(probe.crossref, "abstract") = Str(<<"C","r">>)
    /\ FieldOf(probe.unpaywall, "abstract") = Str(<<"U","p">>)
    /\ probe.out.content.abstract
          = Str(<<"W","e"," ","s","o","i","l","s"," ","s","t","u","d","y">>)

(***************************************************************************)
(* _reconstruct_abstract on its own, over the inverted indexes that place  *)
(* a word on each position of a set of positions, the words of the mapping *)
(* in any insertion order                                                  *)
(***************************************************************************)
\* the largest position of an inverted index
MaxPos == 3

IndexWords ==
    {Str(<<"W","e">>), Str(<<"s","t","u","d","y">>), Str(<<"s","o","i","l","s">>)}

\* the texts: a word on each position of a set of positions
Placements == UNION {[S -> IndexWords] : S \in SUBSET (0..MaxPos)}

\* the members of a set of integers, ascending
RECURSIVE Ascending(_)
Ascending(S) ==
    IF S = {} THEN <<>>
    ELSE LET m == CHOOSE x \in S : \A y \in S : x <= y
         IN  <<m>> \o Ascending(S \ {m})

Reversed(s) == [i \in DOMAIN s |-> s[Len(s) + 1 - i]]

\* the sequences that list each member of a set once
Orders(S) ==
    {f \in [1..Cardinality(S) -> S] : \A i, j \in DOMAIN f : f[i] = f[j] => i = j}

\* the inverted index of a placement: its words in the given insertion
\* order, the positions of a word ascending or descending
IndexOf(placed, order, descending) ==
    ODict([i \in DOMAIN order |->
        LET at == Ascending({p \in DOMAIN placed : placed[p] = order[i]})
            ps == IF descending THEN Reversed(at) ELSE at
        IN  [k |-> order[i], v |-> List([j \in DOMAIN ps |-> Int_(ps[j])])]])

InitReconstruct ==
    /\ papers_coll = <<>>
    /\ current_year = StartYear
    /\ InitRun
    /\ probe \in
          {[fn |-> "_reconstruct_abstract", step |-> 0, placed |-> <<>>,
            arg |-> None, out |-> None]}
          \cup UNION {
                {[fn |-> "_reconstruct_abstract", step |-> 0, placed |-> a,
                  arg |-> IndexOf(a, order, descending), out |-> None] :
                    order \in Orders({a[p] : p \in DOMAIN a}),
                    descending \in BOOLEAN} :
                a \in Placements}

\* _reconstruct_abstract(arg)
Reconstruct_Call ==
    /\ probe.fn = "_reconstruct_abstract"
    /\ probe.step = 0
    /\ probe' = [probe EXCEPT !.step = 1,
                              !.out = _reconstruct_abstract(probe.arg)]
    /\ UNCHANGED pipeVars

NextReconstruct == Reconstruct_Call

SpecReconstruct == InitReconstruct /\ [][NextReconstruct]_vars

\* words joined by single spaces
RECURSIVE Spaced(_)
Spaced(words) ==
    IF words = <<>> THEN <<>>
    ELSE IF Len(words) = 1 THEN Head(words).s
    ELSE Head(words).s \o <<" ">> \o Spaced(Tail(words))

\* C18: for an inverted index with pairwise distinct positions,
\* _reconstruct_abstract returns the words in ascending order of their
\* positions, one per occurrence, joined by single spaces, whatever the
\* insertion order of the mapping; for None and for the empty index it
\* returns the empty string.
C18_WordsByPosition ==
    (probe.fn = "_reconstruct_abstract" /\ probe.step = 1)
        => LET at == Ascending(DOMAIN probe.placed)
           IN  probe.out = Str(Spaced([i \in DOMAIN at |-> probe.placed[at[i]]]))

\* the index {We: [0], study: [2], soils: [1]} gives 'We soils study'
C18_Witness ==
    /\ probe.fn = "_reconstruct_abstract"
    /\ probe.step = 1
    /\ probe.arg = SoilsIndex
    /\ probe.out
          = Str(<<"W","e"," ","s","o","i","l","s"," ","s","t","u","d","y">>)

(***************************************************************************)
(* The PDF url of the record, over the payloads of SpecBuild               *)
(***************************************************************************)
\* C19: the record's pdf_url is the first non-empty value of the primary
\* payload's best_oa_location.url_for_pdf, its primary_location.pdf_url,
\* the open-access payload's best_oa_location.url_for_pdf and its url, in
\* this order, and the empty string when none is there.
C19_PdfUrlOrder ==
    (probe.fn = "build_paper_document" /\ probe.step = 1)
        => probe.out.open_access.pdf_url =
              FirstPresent(<<
                  FieldOf(FieldOf(probe.work, "best_oa_location"), "url_for_pdf"),
                  FieldOf(FieldOf(probe.work, "primary_location"), "pdf_url"),
                  FieldOf(FieldOf(probe.unpaywall, "best_oa_location"),
                          "url_for_pdf"),
                  FieldOf(probe.unpaywall, "url")>>)

\* the primary payload's best location has an empty url and its alternate
\* location has one, which wins over both urls of the open-access payload
C19_Witness ==
    /\ probe.fn = "build_paper_document"
    /\ probe.step = 1
    /\ FieldOf(FieldOf(probe.work, "best_oa_location"), "url_for_pdf") = EmptyStr
    /\ FieldOf(FieldOf(probe.unpaywall, "best_oa_location"), "url_for_pdf")
          = Str(<<"u","2">>)
    /\ FieldOf(probe.unpaywall, "url") = Str(<<"u","4">>)
    /\ probe.out.open_access.pdf_url = Str(<<"u","3">>)

(***************************************************************************)
(* influential_citations, over the payloads of SpecNumeric                 *)
(***************************************************************************)
\* the entry of a per-year series with the latest year
LatestEntry(series) ==
    series[CHOOSE i \in DOMAIN series :
              \A j \in DOMAIN series : series[j].d["year"].n <= series[i].d["year"].n]

\* C20: the record's influential_citations is the citation count of the
\* entry of counts_by_year with the latest year, in whatever order the
\* series lists its entries, and 0 when the series is missing or empty.
C20_LatestYearCount ==
    (probe.fn = "build_paper_document" /\ probe.step = 1
     /\ probe.out # BuildError)
        => LET series == FieldOf(probe.work, "counts_by_year")
           IN  probe.out.impact.influential_citations =
                  IF series \in {None, List(<<>>)} THEN 0
                  ELSE IntOf(GetD(LatestEntry(series.l), "cited_by_count",
                                  Int_(0))).n

(***************************************************************************)
(* The download stage (download_pdfs.py main) and the statuses it writes   *)
(***************************************************************************)
\* runs of download_pdfs.py next to runs of get_papers.py, which replace
\* the records
NextDownload ==
    \/ \E b \in Batches : Main_Fetch(b)
    \/ Upsert_Step
    \/ Upsert_Raise
    \/ Main_Summary
    \/ Main_Exit
    \/ \E limit \in Limits : Download_Start(limit)
    \/ \E paper \in dl_papers : Download_Ok(paper)
    \/ \E paper \in dl_papers : Download_Fail(paper)
    \/ Download_End

SpecDownload == Init /\ [][NextDownload]_vars

\* the statuses the download stage leaves alone
SettledStatuses == {"no_pdf_available", "downloaded", "failed"}

\* doc after update_paper_status(db, _id, "downloaded", save_path)
MarkedDownloaded(doc) ==
    [doc EXCEPT !.processing_status = "downloaded",
                !.content.local_path = save_path(doc)]

\* doc after update_paper_status(db, _id, "failed")
MarkedFailed(doc) == [doc EXCEPT !.processing_status = "failed"]

\* C21: the download stage selects only records whose status is
\* pending_download, and each of its steps leaves every stored record as
\* it was, except a selected record with status pending_download, which
\* becomes downloaded with content.local_path set, or failed; a record
\* whose status is no_pdf_available, downloaded or failed is never
\* selected and never changed, and no record is added or removed
C21_DownloadOnlyPending ==
    [][ (pc = "download" \/ pc' = "download") =>
          /\ DOMAIN papers_coll' = DOMAIN papers_coll
          /\ \A paper \in dl_papers' :
                /\ paper._id \in DOMAIN papers_coll
                /\ papers_coll[paper._id] = paper
                /\ paper.processing_status = "pending_download"
          /\ \A id \in DOMAIN papers_coll :
                \/ papers_coll'[id] = papers_coll[id]
                \/ /\ papers_coll[id].processing_status = "pending_download"
                   /\ papers_coll[id] \in dl_papers
                   /\ papers_coll'[id] \in {MarkedDownloaded(papers_coll[id]),
                                            MarkedFailed(papers_coll[id])}
          /\ \A id \in DOMAIN papers_coll :
                papers_coll[id].processing_status \in SettledStatuses
                    => papers_coll'[id] = papers_coll[id] ]_vars

\* a download run that has marked one record failed and one downloaded,
\* with the path of its file
C21_Witness ==
    /\ pc = "download"
    /\ \E a, b \in DOMAIN papers_coll :
          /\ papers_coll[a].processing_status = "failed"
          /\ papers_coll[b].processing_status = "downloaded"
          /\ papers_coll[b].content.local_path = save_path(papers_coll[b])

(***************************************************************************)
(* The counts upsert_to_db returns                                         *)
(***************************************************************************)
\* the identifiers the store holds now and did not hold when upsert_to_db
\* was called
NewIdentifiers == DOMAIN papers_coll \ DOMAIN coll_before

\* C22: when upsert_to_db has returned, whatever the batch (records that
\* share an identifier and upserts that raised included), inserted is the
\* number of identifiers the store holds now and did not hold before the
\* call, and inserted + updated is at most the number of records of the
\* batch
C22_InsertedCountsNewIdentifiers ==
    pc = "done" =>
        /\ inserted = Cardinality(NewIdentifiers)
        /\ inserted + updated <= Len(papers)

\* upsert_to_db has returned from a batch of two records with one
\* identifier: the upsert of the first raised, the second was inserted
C22_Witness ==
    /\ pc = "done"
    /\ Len(papers) = 2
    /\ papers[1]._id = papers[2]._id
    /\ db_errors = {1}
    /\ inserted = 1
    /\ NewIdentifiers = {papers[2]._id}

(***************************************************************************)
(* The extraction stage (extract.py) next to runs of get_papers.py         *)
(***************************************************************************)
NextExtract ==
    \/ \E b \in Batches : Main_Fetch(b)
    \/ Upsert_Step
    \/ Upsert_Raise
    \/ Main_Summary
    \/ Main_Exit
    \/ \E limit \in Limits, reprocess \in BOOLEAN :
          Extract_Start(limit, reprocess)
    \/ \E paper \in ex_papers, extraction_result \in ExtractionResults :
          Extract_Step(paper, extraction_result)
    \/ \E paper \in ex_papers : Extract_Raise(paper)
    \/ Extract_End

SpecExtract == Init /\ [][NextExtract]_vars

\* the records of extracted_features of one paper identifier
RecordsOf(paper_id) ==
    {i \in DOMAIN features_coll : features_coll[i].paper_id = paper_id}

\* C23: whatever extraction runs (with or without reprocess) and paper
\* upserts have happened, extracted_features holds at most one record for
\* each paper identifier, and a run with only_unprocessed has selected no
\* paper whose identifier has a record
C23_OneRecordPerPaper ==
    /\ \A i, j \in DOMAIN features_coll :
          features_coll[i].paper_id = features_coll[j].paper_id => i = j
    /\ (pc = "extract" /\ ~ex_reprocess)
          => \A paper \in ex_papers : RecordsOf(paper._id) = {}

\* a run with only_unprocessed has selected a paper and left out another
\* paper of the store, which has an abstract and a record
C23_Witness ==
    /\ pc = "extract"
    /\ ~ex_reprocess
    /\ ex_papers # {}
    /\ \E id \in DOMAIN papers_coll :
          /\ papers_coll[id] \in extract_query(papers_coll)
          /\ papers_coll[id] \notin ex_papers
          /\ \E i \in RecordsOf(id) :
                features_coll[i].data_points.extraction_count = 1
    /\ Len(features_coll) = 1

=============================================================================
